---- MODULE Spec2Model ----
(***************************************************************************)
(* Model of package lenovoconsole: the Console session (Initialize, Start, *)
(* Stop, GetURL, GetPort), the background serving goroutine launched by    *)
(* Start, the remote-presence port lookup GetRPPort, the page rendering    *)
(* and the HTTP handlers installed on the session's mux.                   *)
(*                                                                         *)
(* Strings that are converted by the code (host, username, password, the   *)
(* rendered page, request paths) are sequences of one-character strings or *)
(* of tokens; ports are integers.                                          *)
(***************************************************************************)
EXTENDS Integers, Sequences, FiniteSets, TLC

\* ------------------------------------------------------------------ bounds

\* Number of http.Server objects that exist at one time: those a console
\* refers to and those whose goroutine still runs.  Start is not taken when
\* it would exceed it.
MaxServers == 2

\* ------------------------------------------------------- program constants

DefaultRPPort == 3900

Consoles == {"c1", "c2"}

\* Ports the operating system hands out for a bind to port 0.
EphemeralPorts == {49152, 49153}

\* --------------------------------------------------------------- the state

VARIABLES
    config,       \* Console.config, per console
    serverPort,   \* Console.serverPort
    server,       \* Console.server: NilServer or the http.Server it points to
    consoleHTML,  \* Console.consoleHTML
    mux,          \* Console.mux: the set of registered patterns
    pc,           \* position of a running Initialize: "idle" or "probing"
    probePort,    \* port held by the open probe socket of findAvailablePort
    orphans,      \* servers no console points to any more, goroutine running
    initialized,  \* history: Initialize has returned nil on this console
    rpRequests,   \* history: lookup requests sent to the target by this console
    lastCall,     \* history: the API call that returned last, and what it returned
    lastResp,     \* history: the HTTP exchange handled last
    rpCall        \* history: the last direct GetRPPort call, its outcome and result

vars == <<config, serverPort, server, consoleHTML, mux, pc, probePort, orphans,
          initialized, rpRequests, lastCall, lastResp, rpCall>>

\* ------------------------------------------------------------ configuration

\* Characters the URL parser rejects in a host name.
BadHostChars == {" "}

GoodHost == <<"h">>
BadHost == <<"h", " ">>
PlainUser == <<"u">>
QuoteUser == <<"u", "'">>
Pass == <<"p">>

\* The configurations a caller hands to NewConsole.
Configs ==
    { [BMCIP |-> GoodHost, Username |-> PlainUser, Password |-> Pass,
       RPPort |-> 3901, ServerPort |-> 0],
      [BMCIP |-> GoodHost, Username |-> QuoteUser, Password |-> Pass,
       RPPort |-> 0, ServerPort |-> 8443],
      [BMCIP |-> BadHost, Username |-> PlainUser, Password |-> Pass,
       RPPort |-> 0, ServerPort |-> 70000],
      [BMCIP |-> BadHost, Username |-> PlainUser, Password |-> Pass,
       RPPort |-> 3901, ServerPort |-> 8443] }

\* Only the most recent observable event is kept: a call's return clears
\* lastResp and a response clears lastCall.
NoCall == [c |-> "none", op |-> "none", err |-> "nil", val |-> <<>>]
NoUpstream ==
    [kind |-> "none", via |-> <<>>, status |-> 0, ctype |-> <<>>,
     headers |-> <<>>, sent |-> <<>>, read |-> <<>>]
NoResp == [c |-> "none", path |-> <<>>, method |-> "", reqHeaders |-> <<>>,
           status |-> 0,
           ctype |-> <<>>, headers |-> <<>>, body |-> <<>>, upstream |-> <<>>,
           up |-> NoUpstream, delivered |-> FALSE]
NoRPCall ==
    [kind |-> "none", bmcIP |-> <<>>,
     net |-> [kind |-> "none", body |-> [json |-> FALSE, members |-> <<>>]],
     result |-> [port |-> 0, err |-> "nil", sent |-> 0]]

\* The nil *http.Server.
NoReq == [path |-> <<>>, method |-> "", headers |-> <<>>]
NilServer ==
    [owner |-> "none", host |-> "", addr |-> 0, port |-> 0, state |-> "nil",
     inShutdown |-> FALSE, ret |-> "nil", conn |-> "none", req |-> NoReq]

\* NewConsole: the configuration is stored, everything else is the zero value.
InitWith(cfgs) ==
    /\ config \in cfgs
    /\ serverPort = [c \in Consoles |-> 0]
    /\ server = [c \in Consoles |-> NilServer]
    /\ consoleHTML = [c \in Consoles |-> <<>>]
    /\ mux = [c \in Consoles |-> {}]
    /\ pc = [c \in Consoles |-> "idle"]
    /\ probePort = [c \in Consoles |-> 0]
    /\ orphans = <<>>
    /\ initialized = [c \in Consoles |-> FALSE]
    /\ rpRequests = [c \in Consoles |-> 0]
    /\ lastCall = NoCall
    /\ lastResp = NoResp
    /\ rpCall = NoRPCall

\* ------------------------------------------------- remote-presence lookup

RECURSIVE HasBadChar(_, _)
HasBadChar(str, i) ==
    IF i > Len(str) THEN FALSE
    ELSE IF str[i] \in BadHostChars THEN TRUE
    ELSE HasBadChar(str, i + 1)

\* http.NewRequest parses the URL built from the host; it fails on a host
\* holding a character the URL parser rejects.
NewRequestOK(bmcIP) == ~HasBadChar(bmcIP, 1)

\* JSON values and object members a target may answer with.
Num(n) == [t |-> "num", n |-> n]
Str == [t |-> "str", n |-> 0]
JSONKeys == {"port", "PORT", "other"}
JSONValues == {Num(-1), Num(0), Num(3901), Num(70000), Str}
Members == [k : JSONKeys, v : JSONValues]
\* A response body: not JSON at all, or a JSON object of up to two members.
Garbage == [json |-> FALSE, members |-> <<>>]
Object(ms) == [json |-> TRUE, members |-> ms]
Bodies == {Garbage} \cup {Object(<<>>)} \cup {Object(<<m>>) : m \in Members}
              \cup {Object(<<m1, m2>>) : m1 \in Members, m2 \in Members}

\* What client.Do can produce: a transport error or a response with a body.
NetOutcomes == {[kind |-> "transport", body |-> Garbage]}
                   \cup {[kind |-> "resp", body |-> b] : b \in Bodies}

\* The outcomes a session's own lookup is run against.
NetSamples ==
    { [kind |-> "transport", body |-> Garbage],
      [kind |-> "resp", body |-> Garbage],
      [kind |-> "resp", body |-> Object(<<[k |-> "port", v |-> Num(3901)]>>)],
      [kind |-> "resp", body |-> Object(<<[k |-> "port", v |-> Num(0)]>>)],
      [kind |-> "resp", body |-> Object(<<[k |-> "port", v |-> Num(70000)]>>)],
      [kind |-> "resp", body |-> Object(<<[k |-> "port", v |-> Num(3901)],
                                          [k |-> "PORT", v |-> Str]>>)] }

\* encoding/json matches an object key to a struct field case-insensitively.
FoldKey(k) == IF k = "PORT" THEN "port" ELSE k

\* json.Decoder.Decode into struct{Port int `json:"port"`}: the members are
\* stored in order; a value of the wrong type is skipped, the earliest such
\* error is returned at the end, and the fields stored so far are kept.
RECURSIVE DecodeMembers(_, _, _)
DecodeMembers(ms, i, acc) ==
    IF i > Len(ms) THEN acc
    ELSE IF FoldKey(ms[i].k) # "port" THEN DecodeMembers(ms, i + 1, acc)
    ELSE IF ms[i].v.t = "num"
         THEN DecodeMembers(ms, i + 1, [acc EXCEPT !.Port = ms[i].v.n])
         ELSE DecodeMembers(ms, i + 1, [acc EXCEPT !.err = TRUE])

Decode(body) ==
    IF ~body.json THEN [Port |-> 0, err |-> TRUE]
    ELSE DecodeMembers(body.members, 1, [Port |-> 0, err |-> FALSE])

\* Variant: a transport error is returned to the caller.
GetRPPortFatal(bmcIP, net) ==
    IF NewRequestOK(bmcIP) /\ net.kind = "transport"
    THEN [port |-> 0, err |-> "transport", sent |-> 1]
    ELSE [port |-> DefaultRPPort, err |-> "nil", sent |-> 0]

\* GetRPPort(bmcIP, username, password) against a target that behaves as
\* net: the port, the error returned and the number of requests sent.
GetRPPort(bmcIP, net) ==
    IF ~NewRequestOK(bmcIP)
    THEN [port |-> DefaultRPPort, err |-> "nil", sent |-> 0]
    ELSE IF net.kind = "transport"
    THEN [port |-> DefaultRPPort, err |-> "nil", sent |-> 1]
    ELSE LET result == Decode(net.body)
         IN IF result.Port > 0
            THEN [port |-> result.Port, err |-> "nil", sent |-> 1]
            ELSE [port |-> DefaultRPPort, err |-> "nil", sent |-> 1]

\* ------------------------------------------------------------ page render

\* html/template escapes a value for the context of its placeholder.
HTMLEscapeChar(ch) == IF ch = "'" THEN <<"&", "#", "3", "9", ";">> ELSE <<ch>>
JSStrEscapeChar(ch) ==
    IF ch = "'" THEN <<"\\", "u", "0", "0", "2", "7">> ELSE <<ch>>

RECURSIVE HTMLEscape(_)
HTMLEscape(str) ==
    IF str = <<>> THEN <<>>
    ELSE HTMLEscapeChar(Head(str)) \o HTMLEscape(Tail(str))

RECURSIVE JSStrEscape(_)
JSStrEscape(str) ==
    IF str = <<>> THEN <<>>
    ELSE JSStrEscapeChar(Head(str)) \o JSStrEscape(Tail(str))

\* htmlTemplate: the literal text between the placeholders is one token per
\* stretch; the placeholders are records naming the field and its context.
htmlTemplate ==
    << [lit |-> "<li>Proceed to "], [field |-> "BMCIP", ctx |-> "html"],
       [lit |-> "</li> bmcIP: '"], [field |-> "BMCIP", ctx |-> "jsstr"],
       [lit |-> "', rpPort: "], [field |-> "RPPort", ctx |-> "jsval"],
       [lit |-> ", bmcUsername: '"], [field |-> "BMCUsername", ctx |-> "jsstr"],
       [lit |-> "', bmcPassword: '"], [field |-> "BMCPassword", ctx |-> "jsstr"],
       [lit |-> "'"] >>

IsPlaceholder(seg) == "field" \in DOMAIN seg

RenderSegment(seg, data) ==
    IF ~IsPlaceholder(seg) THEN <<seg.lit>>
    ELSE IF seg.ctx = "html" THEN HTMLEscape(data[seg.field])
    ELSE IF seg.ctx = "jsstr" THEN JSStrEscape(data[seg.field])
    ELSE <<" ", ToString(data[seg.field]), " ">>

RECURSIVE Execute(_, _)
Execute(tmpl, data) ==
    IF tmpl = <<>> THEN <<>>
    ELSE RenderSegment(Head(tmpl), data) \o Execute(Tail(tmpl), data)

\* Variant: the page is rendered before the remote-presence port is
\* resolved, so it carries the unset port.
generateHTMLUnset(cfg) ==
    Execute(htmlTemplate,
            [BMCIP |-> cfg.BMCIP, RPPort |-> 0,
             BMCUsername |-> cfg.Username, BMCPassword |-> cfg.Password])

\* generateHTML: the page rendered from the configuration.
generateHTML(cfg) ==
    Execute(htmlTemplate,
            [BMCIP |-> cfg.BMCIP, RPPort |-> cfg.RPPort,
             BMCUsername |-> cfg.Username, BMCPassword |-> cfg.Password])

\* ------------------------------------------------------ operating system

\* The servers that exist: the one each console points to, then the orphans.
\* A handle names one of them.
Handles ==
    {<<"cur", c>> : c \in {x \in Consoles : server[x].state # "nil"}}
        \cup {<<"orphan", i>> : i \in 1..Len(orphans)}

ServerAt(h) == IF h[1] = "cur" THEN server[h[2]] ELSE orphans[h[2]]

\* The goroutine of a server runs until ListenAndServeTLS returns.
Running(srv) == srv.state \in {"new", "listening", "serving"}

\* A socket holds its port from bind to close.
HoldsPort(srv) == srv.state \in {"listening", "serving"}

\* The ports bound in the process: listeners and open probe sockets.
BoundPorts ==
    {ServerAt(h).port : h \in {x \in Handles : HoldsPort(ServerAt(x))}}
        \cup {probePort[c] : c \in {x \in Consoles : pc[x] = "probing"}}

ValidPort(p) == p >= 1 /\ p <= 65535

\* Variant: a probe that may be given a port already held.
findAvailablePortAny(bound) == EphemeralPorts

\* findAvailablePort: net.Listen("tcp", "127.0.0.1:0") is given a port that
\* is not in bound.
findAvailablePort(bound) == EphemeralPorts \ bound

\* ----------------------------------------------------------- the handlers

\* Request paths and mux patterns are sequences of tokens.
RootPath == <<"/">>
CertPath == <<"/", "cert.pem">>
SDKPrefix == <<"/", "SDK_Pilot4", "/">>
ProxyFiles == {"offscreenworker", "mouseworker", "utility", "mediaTypes",
               "rphandlers", "websockethandler", "virtualkeyboard",
               "mediaworkerhandler"}
ProxyPatterns == {SDKPrefix} \cup {<<"/", f, ".js">> : f \in ProxyFiles}

\* setupHandlers: the patterns it registers, "/" first.
HandlerPatterns == {RootPath, CertPath} \cup ProxyPatterns

\* ------------------------------------------------------------- Initialize

\* A panic nothing recovers ends the process: no call, goroutine or handler
\* runs after it.
Alive == lastCall.err # "panic"

Returned(c, op, err, val) ==
    /\ lastCall' = [c |-> c, op |-> op, err |-> err, val |-> val]
    /\ lastResp' = NoResp

\* setupHandlers registers on c.mux; registering a pattern the mux already
\* holds panics, which happens at the first pattern when the set is there.
\* Variant: registering a pattern again replaces the handler silently.
SetupPanicsNever(c) == FALSE

SetupPanics(c) == mux[c] \cap HandlerPatterns # {}

\* The end of Initialize once the listen port is known: the port is stored
\* and the handlers are installed.
InitializeEnd(c, port) ==
    /\ serverPort' = [serverPort EXCEPT ![c] = port]
    /\ IF SetupPanics(c)
       THEN /\ Returned(c, "Initialize", "panic", <<>>)
            /\ UNCHANGED <<mux, initialized>>
       ELSE /\ mux' = [mux EXCEPT ![c] = @ \cup HandlerPatterns]
            /\ initialized' = [initialized EXCEPT ![c] = TRUE]
            /\ Returned(c, "Initialize", "nil", <<>>)

\* The target's behaviours that matter to Initialize: none when the port is
\* configured, since no lookup is made.
LookupOutcomes(cfg) ==
    IF cfg.RPPort = 0 THEN NetSamples
    ELSE {[kind |-> "transport", body |-> Garbage]}

\* The remote-presence port Initialize settles on, the error of the lookup
\* and the requests it sent.
ResolveRPPort(cfg, net) ==
    IF cfg.RPPort = 0
    THEN GetRPPort(cfg.BMCIP, net)
    ELSE [port |-> cfg.RPPort, err |-> "nil", sent |-> 0]

\* Variant: the configured listen port is ignored.
UsesConfiguredPortNever(cfg) == FALSE

\* c.config.ServerPort != 0: the configured listen port is used as it is.
UsesConfiguredPort(cfg) == cfg.ServerPort # 0

\* Initialize up to the point where the listen port is known: the lookup
\* and the rendering, then either the configured port and the rest of the
\* call, or the bind of the probe socket of findAvailablePort.
InitializeBegin(c) ==
    /\ Alive
    /\ pc[c] = "idle"
    /\ \E net \in LookupOutcomes(config[c]) :
        LET rp == ResolveRPPort(config[c], net)
            cfg == [config[c] EXCEPT !.RPPort = rp.port]
        IN /\ rpRequests' = [rpRequests EXCEPT ![c] = @ + rp.sent]
           /\ IF rp.err # "nil"
              THEN /\ Returned(c, "Initialize", "failed to get RP port", <<>>)
                   /\ UNCHANGED <<config, consoleHTML, serverPort, mux, pc,
                                  probePort, initialized>>
              ELSE /\ config' = [config EXCEPT ![c] = cfg]
                   /\ consoleHTML' = [consoleHTML EXCEPT ![c] = generateHTML(cfg)]
                   /\ IF UsesConfiguredPort(cfg)
                      THEN /\ InitializeEnd(c, cfg.ServerPort)
                           /\ UNCHANGED <<pc, probePort>>
                      ELSE IF findAvailablePort(BoundPorts) = {}
                      THEN /\ Returned(c, "Initialize",
                                       "failed to find available port", <<>>)
                           /\ UNCHANGED <<serverPort, mux, pc, probePort,
                                          initialized>>
                      ELSE /\ \E p \in findAvailablePort(BoundPorts) :
                                probePort' = [probePort EXCEPT ![c] = p]
                           /\ pc' = [pc EXCEPT ![c] = "probing"]
                           /\ UNCHANGED <<serverPort, mux, initialized,
                                          lastCall, lastResp>>
    /\ UNCHANGED <<server, orphans, rpCall>>

\* The rest of Initialize after the probe socket was bound: findAvailablePort
\* reads the port and closes the socket, then the handlers are installed.
InitializeFinish(c) ==
    /\ Alive
    /\ pc[c] = "probing"
    /\ pc' = [pc EXCEPT ![c] = "idle"]
    /\ probePort' = [probePort EXCEPT ![c] = 0]
    /\ InitializeEnd(c, probePort[c])
    /\ UNCHANGED <<config, server, consoleHTML, orphans, rpRequests,
                   rpCall>>

\* ------------------------------------------------------------------ Start

\* The host part of the address Start listens on, ":<port>": none.
ListenHost == ""

\* The interfaces a listener on the host accepts connections from: all of
\* them when the address names no host.
Interfaces(host) ==
    IF host = "" THEN {"loopback", "external"}
    ELSE IF host \in {"127.0.0.1", "localhost"} THEN {"loopback"}
    ELSE {"external"}

\* The http.Server Start builds: Addr ":<serverPort>", Handler c.mux; ret
\* is what Start returns to the caller that created it.
NewServer(c) ==
    [owner |-> c, host |-> ListenHost, addr |-> serverPort[c], port |-> 0,
     state |-> "new", inShutdown |-> FALSE, ret |-> "nil",
     conn |-> "none", req |-> NoReq]

\* The servers that exist once c.server is overwritten: a server whose
\* goroutine still runs goes on running with nothing pointing to it.
OrphansAfterStart(c) ==
    IF Running(server[c]) THEN Append(orphans, server[c]) ELSE orphans

NumServers ==
    Len(orphans) + Cardinality({c \in Consoles : server[c].state # "nil"})

\* Start: a new server replaces c.server, the goroutine is launched, and
\* after the sleep nil is returned, whatever the goroutine has done by then.
Start(c) ==
    /\ Alive
    /\ pc[c] = "idle"
    /\ orphans' = OrphansAfterStart(c)
    /\ server' = [server EXCEPT ![c] = NewServer(c)]
    /\ Len(orphans') + Cardinality({x \in Consoles : server'[x].state # "nil"})
           <= MaxServers
    /\ Returned(c, "Start", server'[c].ret, <<>>)
    /\ UNCHANGED <<config, serverPort, consoleHTML, mux, pc, probePort,
                   initialized, rpRequests, rpCall>>

\* ------------------------------------------------- the serving goroutine

RemoveAt(seq, i) == SubSeq(seq, 1, i - 1) \o SubSeq(seq, i + 1, Len(seq))

\* The server at h becomes rec; an orphan whose goroutine has returned is
\* unreachable and is dropped.
SetServer(h, rec) ==
    IF h[1] = "cur"
    THEN /\ server' = [server EXCEPT ![h[2]] = rec]
         /\ UNCHANGED orphans
    ELSE /\ orphans' = IF Running(rec) THEN [orphans EXCEPT ![h[2]] = rec]
                       ELSE RemoveAt(orphans, h[2])
         /\ UNCHANGED server

GoroutineFrame ==
    UNCHANGED <<config, serverPort, consoleHTML, mux, pc, probePort,
                initialized, rpRequests, lastCall, lastResp,
                rpCall>>

\* The outcome of net.Listen("tcp", ":<addr>") when the ports in bound are
\* held: the port bound, or 0 when the bind fails.
ListenOutcomes(addr, bound) ==
    IF addr = 0
    THEN (IF EphemeralPorts \ bound = {} THEN {0} ELSE EphemeralPorts \ bound)
    ELSE IF ~ValidPort(addr) \/ addr \in bound THEN {0}
    ELSE {addr}

\* What the start of ListenAndServeTLS makes of a new server: one already
\* shut down returns ErrServerClosed without binding, otherwise net.Listen
\* binds port p or fails (p = 0).
AfterListen(srv, p) ==
    IF srv.inShutdown THEN [srv EXCEPT !.state = "closed"]
    ELSE IF p = 0 THEN [srv EXCEPT !.state = "failed"]
    ELSE [srv EXCEPT !.state = "listening", !.port = p]

\* ListenAndServeTLS up to net.Listen.  The shutdown test and the bind are
\* one step: a Close between the two leaves the same states as a Close
\* right after the bind.  A failure is returned to the goroutine, which only
\* prints it.
ServeListen(h) ==
    /\ Alive
    /\ ServerAt(h).state = "new"
    /\ \E p \in ListenOutcomes(ServerAt(h).addr, BoundPorts) :
         SetServer(h, AfterListen(ServerAt(h), p))
    /\ GoroutineFrame

\* What ServeTLS makes of a bound listener: without the certificate files it
\* fails, on a server shut down meanwhile Serve returns ErrServerClosed, and
\* in both cases the deferred ln.Close releases the port; otherwise the
\* listener is registered and accepts.
AfterServeTLS(srv, certOK) ==
    IF ~certOK THEN [srv EXCEPT !.state = "failed", !.port = 0]
    ELSE IF srv.inShutdown THEN [srv EXCEPT !.state = "closed", !.port = 0]
    ELSE [srv EXCEPT !.state = "serving"]

\* ListenAndServeTLS after net.Listen: ServeTLS on the bound listener.
ServeTLS(h) ==
    /\ Alive
    /\ ServerAt(h).state = "listening"
    /\ \E certOK \in BOOLEAN : SetServer(h, AfterServeTLS(ServerAt(h), certOK))
    /\ GoroutineFrame

\* Serve on an accepting listener returns when Accept fails for good: the
\* deferred ln.Close releases the port and the goroutine prints the error.
AfterAcceptFault(srv) == [srv EXCEPT !.state = "faulted", !.port = 0]

AcceptFault(h) ==
    /\ Alive
    /\ ServerAt(h).state = "serving"
    /\ SetServer(h, AfterAcceptFault(ServerAt(h)))
    /\ GoroutineFrame

\* ------------------------------------------------------------------- Stop

\* What Close does to a connection of the server: one with a request in
\* flight is closed under its handler.
CloseConn(conn) == IF conn = "active" THEN "closed" ELSE conn

\* http.Server.Close: the server is marked shut down, the listeners it has
\* registered are closed, which ends Serve, and so is every connection it
\* tracks, without waiting for the requests on them (that is Shutdown).
Close(srv) ==
    IF srv.state = "serving"
    THEN [srv EXCEPT !.inShutdown = TRUE, !.state = "closed", !.port = 0,
                     !.conn = CloseConn(@)]
    ELSE [srv EXCEPT !.inShutdown = TRUE, !.conn = CloseConn(@)]

\* Variant: Close reports the fault that ended Serve.
CloseErrFaulted(srv) ==
    IF srv.state \in {"failed", "faulted"} THEN "server fault" ELSE "nil"

\* Variant: closing a server that is already closed is an error.
CloseErrTwice(srv) == IF srv.inShutdown THEN "http: Server closed" ELSE "nil"

\* What http.Server.Close returns: the error of closing its registered
\* listeners, of which a TCP listener gives none.
CloseErr(srv) == "nil"

\* Variant: Stop closes the server of every console.
StopAll(c) ==
    /\ Alive
    /\ pc[c] = "idle"
    /\ server' = [d \in Consoles |->
                     IF server[d] # NilServer THEN Close(server[d]) ELSE server[d]]
    /\ lastCall' = [c |-> c, op |-> "Stop", err |-> "nil", val |-> <<>>]
    /\ lastResp' = NoResp
    /\ UNCHANGED <<config, serverPort, consoleHTML, mux, pc, probePort,
                   orphans, initialized, rpRequests, rpCall>>

\* Variant: Stop without the nil test.
HasServerAlways(c) == TRUE

\* c.server != nil
HasServer(c) == server[c] # NilServer

\* Stop: closes c.server when there is one, and returns nil otherwise.
Stop(c) ==
    /\ Alive
    /\ pc[c] = "idle"
    /\ IF HasServer(c)
       THEN /\ server' = [server EXCEPT ![c] = Close(server[c])]
            /\ Returned(c, "Stop", CloseErr(server[c]), <<>>)
       ELSE /\ UNCHANGED server
            /\ Returned(c, "Stop", "nil", <<>>)
    /\ UNCHANGED <<config, serverPort, consoleHTML, mux, pc, probePort,
                   orphans, initialized, rpRequests, rpCall>>

\* ---------------------------------------------------------- LaunchAndOpen

\* What getBrowserCommand and cmd.Start make of the platform: the error
\* OpenInBrowser returns.
BrowserOutcomes == {"nil", "unsupported platform", "failed to open browser"}

\* Variant: a URL without TLS.
FormatURLPlain(port) == <<"http://localhost:", ToString(port)>>

\* fmt.Sprintf("https://localhost:%d", port)
FormatURL(port) == <<"https://localhost:", ToString(port)>>

\* Variant: OpenInBrowser forgets the listen port once the browser is
\* launched.
OpenInBrowserResets(c) ==
    /\ Alive
    /\ pc[c] = "idle"
    /\ \E browser \in BrowserOutcomes :
        /\ lastCall' = [c |-> c, op |-> "OpenInBrowser", err |-> browser,
                        val |-> FormatURL(serverPort[c])]
        /\ lastResp' = NoResp
    /\ serverPort' = [serverPort EXCEPT ![c] = 0]
    /\ UNCHANGED <<config, server, consoleHTML, mux, pc, probePort,
                   orphans, initialized, rpRequests, rpCall>>

\* OpenInBrowser: hands c.GetURL() to the platform's opener and returns the
\* error of finding or starting it; val is the URL it was given.
OpenInBrowser(c) ==
    /\ Alive
    /\ pc[c] = "idle"
    /\ \E browser \in BrowserOutcomes :
        Returned(c, "OpenInBrowser", browser, FormatURL(serverPort[c]))
    /\ UNCHANGED <<config, serverPort, server, consoleHTML, mux, pc, probePort,
                   orphans, initialized, rpRequests, rpCall>>

\* Variant: the error of the last step is swallowed.
LaunchErrNone(errs) == "nil"

\* LaunchAndOpen returns the error of the step it stopped at, which is the
\* last one it ran.
LaunchErr(errs) == errs[Len(errs)]

\* Variant: LaunchAndOpen closes the server when the browser did not open.
AfterOpenInBrowserUndo(srv, browser) ==
    IF browser # "nil" THEN Close(srv) ELSE srv

\* The server Start built, once OpenInBrowser has returned: LaunchAndOpen
\* returns the error and leaves c.server alone.
AfterOpenInBrowser(srv, browser) == srv

\* The listen port Initialize settles on: the configured one, or one of
\* those the probe can be given.
ListenPorts(cfg) ==
    IF UsesConfiguredPort(cfg) THEN {cfg.ServerPort}
    ELSE findAvailablePort(BoundPorts)

\* LaunchAndOpen: Initialize, Start and OpenInBrowser in turn, stopping at
\* the first that returns an error.  val lists what the steps that ran
\* returned.  The probe socket of Initialize is opened and closed within
\* the call.
LaunchAndOpen(c) ==
    /\ Alive
    /\ pc[c] = "idle"
    /\ \E net \in LookupOutcomes(config[c]), browser \in BrowserOutcomes :
        LET rp == ResolveRPPort(config[c], net)
            cfg == [config[c] EXCEPT !.RPPort = rp.port]
        IN /\ rpRequests' = [rpRequests EXCEPT ![c] = @ + rp.sent]
           /\ IF rp.err # "nil"
              THEN /\ Returned(c, "LaunchAndOpen",
                               LaunchErr(<<"failed to get RP port">>),
                               <<"failed to get RP port">>)
                   /\ UNCHANGED <<config, consoleHTML, serverPort, mux,
                                  initialized, server, orphans>>
              ELSE /\ config' = [config EXCEPT ![c] = cfg]
                   /\ consoleHTML' = [consoleHTML EXCEPT ![c] = generateHTML(cfg)]
                   /\ IF ListenPorts(cfg) = {}
                      THEN /\ Returned(c, "LaunchAndOpen",
                                   LaunchErr(<<"failed to find available port">>),
                                   <<"failed to find available port">>)
                           /\ UNCHANGED <<serverPort, mux, initialized, server,
                                          orphans>>
                      ELSE \E p \in ListenPorts(cfg) :
                           /\ serverPort' = [serverPort EXCEPT ![c] = p]
                           /\ IF SetupPanics(c)
                              THEN /\ Returned(c, "LaunchAndOpen", "panic", <<>>)
                                   /\ UNCHANGED <<mux, initialized, server,
                                                  orphans>>
                              ELSE /\ mux' = [mux EXCEPT ![c] = @ \cup HandlerPatterns]
                                   /\ initialized' = [initialized EXCEPT ![c] = TRUE]
                                   /\ orphans' = OrphansAfterStart(c)
                                   /\ server' = [server EXCEPT ![c] =
                                          AfterOpenInBrowser(
                                              [NewServer(c) EXCEPT !.addr = p],
                                              browser)]
                                   /\ Len(orphans')
                                        + Cardinality({x \in Consoles :
                                              server'[x].state # "nil"})
                                          <= MaxServers
                                   /\ IF server'[c].ret # "nil"
                                      THEN Returned(c, "LaunchAndOpen",
                                               LaunchErr(<<"nil", server'[c].ret>>),
                                               <<"nil", server'[c].ret>>)
                                      ELSE Returned(c, "LaunchAndOpen",
                                               LaunchErr(<<"nil", "nil", browser>>),
                                               <<"nil", "nil", browser>>)
    /\ UNCHANGED <<pc, probePort, rpCall>>

\* --------------------------------------------------------- GetURL, GetPort

GetURL(c) ==
    /\ Alive
    /\ pc[c] = "idle"
    /\ Returned(c, "GetURL", "nil", FormatURL(serverPort[c]))
    /\ UNCHANGED <<config, serverPort, server, consoleHTML, mux, pc, probePort,
                   orphans, initialized, rpRequests, rpCall>>

GetPort(c) ==
    /\ Alive
    /\ pc[c] = "idle"
    /\ Returned(c, "GetPort", "nil", <<serverPort[c]>>)
    /\ UNCHANGED <<config, serverPort, server, consoleHTML, mux, pc, probePort,
                   orphans, initialized, rpRequests, rpCall>>

\* ------------------------------------------------------ request handling

IsPrefix(pat, path) ==
    /\ Len(pat) <= Len(path)
    /\ SubSeq(path, 1, Len(pat)) = pat

\* strings.HasSuffix(path, ".js")
HasSuffixJS(path) == path[Len(path)] = ".js"

\* A pattern ending in "/" matches every path it is a prefix of, any other
\* pattern the path equal to it.
PatternMatches(pat, path) ==
    IF pat[Len(pat)] = "/" THEN IsPrefix(pat, path) ELSE pat = path

\* http.ServeMux: of the registered patterns matching the path the most
\* specific, that is the longest, wins; <<>> when none matches.
MuxMatch(patterns, path) ==
    LET ms == {pat \in patterns : PatternMatches(pat, path)}
    IN IF ms = {} THEN <<>>
       ELSE CHOOSE pat \in ms : \A other \in ms : Len(other) <= Len(pat)

certHTML == <<"<title>Certificate Acceptance</title>">>

\* What a handler writes, with the requests it sent to the target; headers
\* are the response headers other than Content-Type, up is the behaviour of
\* the target a proxied response was made from.
Response(c, req, status, ctype, body, upstream) ==
    [c |-> c, path |-> req.path, method |-> req.method,
     reqHeaders |-> req.headers, status |-> status,
     ctype |-> ctype, headers |-> <<>>, body |-> body, upstream |-> upstream,
     up |-> NoUpstream, delivered |-> TRUE]

\* The mux's answer when no pattern matches: http.NotFound.
NotFound(c, req) ==
    Response(c, req, 404, <<"text/plain; charset=utf-8">>,
             <<"404 page not found">>, <<>>)

\* Variant: the page is served to GET alone.
consoleHandlerGetOnly(c, req) ==
    IF req.method = "GET"
    THEN Response(c, req, 200, <<"text/html">>, consoleHTML[c], <<>>)
    ELSE Response(c, req, 405, <<"text/plain; charset=utf-8">>,
                  <<"Method Not Allowed">>, <<>>)

\* consoleHandler: the rendered page, as text/html, with the implicit 200.
consoleHandler(c, req) ==
    Response(c, req, 200, <<"text/html">>, consoleHTML[c], <<>>)

certHandler(c, req) ==
    Response(c, req, 200, <<"text/html">>, certHTML, <<>>)

\* Variant: the target is always asked with GET.
UpstreamRequestGet(c, req) ==
    [url |-> <<"https://">> \o config[c].BMCIP \o req.path,
     method |-> "GET", headers |-> req.headers]

\* The request proxySDKHandler sends to the target.
UpstreamRequest(c, req) ==
    [url |-> <<"https://">> \o config[c].BMCIP \o req.path,
     method |-> req.method, headers |-> req.headers]

\* http.Client follows a redirect: after a 302 the request is repeated at
\* the new location, as GET unless it was GET or HEAD, with the headers of
\* the first request.
RedirectMethod(method) == IF method \in {"GET", "HEAD"} THEN method ELSE "GET"

RedirectRequest(c, req, loc) ==
    [url |-> <<"https://">> \o config[c].BMCIP \o loc,
     method |-> RedirectMethod(req.method), headers |-> req.headers]

\* client.Do(req) against a target that behaves as up: the requests sent.
ClientDo(c, req, up) ==
    <<UpstreamRequest(c, req)>>
        \o (IF up.via = <<>> THEN <<>> ELSE <<RedirectRequest(c, req, up.via)>>)

\* Variant: the content type is added to the upstream's values.
ProxyContentTypeAdd(path, upCtype) ==
    IF HasSuffixJS(path) THEN upCtype \o <<"application/javascript">> ELSE upCtype

\* The content-type values of a proxied response: the upstream's, replaced
\* by the JavaScript type for a path ending in ".js".
ProxyContentType(path, upCtype) ==
    IF HasSuffixJS(path) THEN <<"application/javascript">> ELSE upCtype

\* http.DetectContentType on the bodies used here, which are text.
DetectContentType(body) == "text/plain; charset=utf-8"

\* ResponseWriter.Write: a response with a body and no Content-Type gets the
\* type sniffed from the body.
WriteContentType(ctype, body) ==
    IF ctype = <<>> /\ body # <<>> THEN <<DetectContentType(body)>> ELSE ctype

\* Variant: a failed fetch is tried a second time.
proxySDKHandlerRetry(c, req, up) ==
    Response(c, req, 500, <<"text/plain; charset=utf-8">>,
             <<"Failed to fetch from BMC">>,
             ClientDo(c, req, up) \o ClientDo(c, req, up))

\* proxySDKHandler against a target that behaves as up.  The error of
\* io.ReadAll is dropped: what was read of the body is written.
proxySDKHandler(c, req, up) ==
    IF ~NewRequestOK(config[c].BMCIP)
    THEN Response(c, req, 500, <<"text/plain; charset=utf-8">>,
                  <<"Failed to create request">>, <<>>)
    ELSE IF up.kind = "transport"
    THEN [Response(c, req, 500, <<"text/plain; charset=utf-8">>,
                   <<"Failed to fetch from BMC">>, ClientDo(c, req, up))
             EXCEPT !.up = up]
    ELSE [Response(c, req, up.status,
                   WriteContentType(ProxyContentType(req.path, up.ctype),
                                    up.read),
                   up.read, ClientDo(c, req, up))
             EXCEPT !.headers = up.headers, !.up = up]

\* The handler the mux of console c dispatches the request to.
ServeHTTP(c, req, up) ==
    LET pat == MuxMatch(mux[c], req.path)
    IN IF pat = <<>> THEN NotFound(c, req)
       ELSE IF pat = RootPath THEN consoleHandler(c, req)
       ELSE IF pat = CertPath THEN certHandler(c, req)
       ELSE proxySDKHandler(c, req, up)

\* The requests a browser sends and the ways the target answers a proxied one.
Paths ==
    {RootPath, CertPath, <<"/", "utility", ".js">>,
     <<"/", "SDK_Pilot4", "/", "logo", ".png">>, <<"/", "other">>}
Methods == {"GET", "POST"}
Requests == [path : Paths, method : Methods, headers : {<<"Accept: */*">>}]
TransportError ==
    [kind |-> "transport", via |-> <<>>, status |-> 0, ctype |-> <<>>,
     headers |-> <<>>, sent |-> <<>>, read |-> <<>>]
MovedPath == <<"/", "moved">>
Upstreams ==
    { TransportError,
      [TransportError EXCEPT !.via = MovedPath],
      [kind |-> "resp", via |-> <<>>, status |-> 200, ctype |-> <<>>,
       headers |-> <<"ETag: 1">>, sent |-> <<"sdk">>, read |-> <<"sdk">>],
      [kind |-> "resp", via |-> <<>>, status |-> 404,
       ctype |-> <<"text/html", "text/plain">>,
       headers |-> <<>>, sent |-> <<"missing">>, read |-> <<"missing">>],
      [kind |-> "resp", via |-> MovedPath, status |-> 200,
       ctype |-> <<"text/css">>,
       headers |-> <<>>, sent |-> <<"sdk">>, read |-> <<"sdk">>],
      [kind |-> "resp", via |-> <<>>, status |-> 200,
       ctype |-> <<"text/css">>,
       headers |-> <<>>, sent |-> <<"sdk", "more">>, read |-> <<"sdk">>] }

\* The target is only contacted by the proxy handler.
UpstreamsFor(c, req) ==
    IF MuxMatch(mux[c], req.path) \in ProxyPatterns THEN Upstreams
    ELSE {TransportError}

\* A request reaches the listener of a serving server and is handled by the
\* mux of the console that built the server.
Request(h, req) ==
    /\ Alive
    /\ ServerAt(h).state = "serving"
    /\ \E up \in UpstreamsFor(ServerAt(h).owner, req) :
         lastResp' = ServeHTTP(ServerAt(h).owner, req, up)
    /\ lastCall' = NoCall
    /\ UNCHANGED <<config, serverPort, server, consoleHTML, mux, pc, probePort,
                   orphans, initialized, rpRequests, rpCall>>

\* The two halves of a request that takes time: the server accepts the
\* connection and dispatches the handler, and later the handler returns.
\* One request per server is followed.
Dispatch(h, req) ==
    /\ Alive
    /\ ServerAt(h).state = "serving"
    /\ ServerAt(h).conn = "none"
    /\ SetServer(h, [ServerAt(h) EXCEPT !.conn = "active", !.req = req])
    /\ GoroutineFrame

\* What the caller gets when its connection was closed under the handler:
\* no response.
Lost(c, req) ==
    [NoResp EXCEPT !.c = c, !.path = req.path, !.method = req.method,
                   !.reqHeaders = req.headers]

\* The handler returns: its response goes out on the connection if it is
\* still open, and is dropped if the connection was closed meanwhile.
Complete(h) ==
    /\ Alive
    /\ ServerAt(h).conn # "none"
    /\ LET srv == ServerAt(h)
       IN /\ \E up \in UpstreamsFor(srv.owner, srv.req) :
               lastResp' = IF srv.conn = "active"
                           THEN ServeHTTP(srv.owner, srv.req, up)
                           ELSE Lost(srv.owner, srv.req)
          /\ SetServer(h, [srv EXCEPT !.conn = "none", !.req = NoReq])
    /\ lastCall' = NoCall
    /\ UNCHANGED <<config, serverPort, consoleHTML, mux, pc, probePort,
                   initialized, rpRequests, rpCall>>

\* ----------------------------------------------------- the specifications

\* One session: the caller works with console c1 alone.
Init == InitWith({f \in [Consoles -> Configs] : f["c2"] = f["c1"]})

\* The requests sent while the session's calls are exercised: the page and
\* one proxied file.
PageRequests ==
    {req \in Requests :
        req.method = "GET" /\ req.path \in {RootPath, <<"/", "utility", ".js">>}}

Goroutine ==
    \/ \E h \in Handles : ServeListen(h)
    \/ \E h \in Handles : ServeTLS(h)
    \/ \E h \in Handles : AcceptFault(h)

Next ==
    \/ InitializeBegin("c1")
    \/ InitializeFinish("c1")
    \/ Start("c1")
    \/ Stop("c1")
    \/ GetURL("c1")
    \/ GetPort("c1")
    \/ OpenInBrowser("c1")
    \/ LaunchAndOpen("c1")
    \/ Goroutine
    \/ \E h \in Handles, req \in PageRequests : Request(h, req)

Spec == Init /\ [][Next]_vars

\* One session that is initialized and started, and whose servers are sent
\* every request of Requests.
NextHTTP ==
    \/ InitializeBegin("c1")
    \/ InitializeFinish("c1")
    \/ Start("c1")
    \/ Goroutine
    \/ \E h \in Handles, req \in Requests : Request(h, req)

SpecHTTP == Init /\ [][NextHTTP]_vars

\* Two sessions in one process, each with its own caller, both taking
\* their listen port from the operating system; neither is stopped.
TwoConfigs == {cfg \in Configs : cfg.ServerPort = 0}

InitTwo == InitWith([Consoles -> TwoConfigs])

NextTwo ==
    \/ \E c \in Consoles : InitializeBegin(c)
    \/ \E c \in Consoles : InitializeFinish(c)
    \/ \E c \in Consoles : Start(c)
    \/ Goroutine

SpecTwo == InitTwo /\ [][NextTwo]_vars

\* Two sessions with the same configuration in one process, initialized and
\* started in any interleaving; one of them is stopped at any time and the
\* other is sent requests.
PairConfigs == TwoConfigs

PairRequests == {req \in Requests : req.method = "GET" /\ req.path = RootPath}

InitPair == InitWith([Consoles -> PairConfigs])

NextPair ==
    \/ \E c \in Consoles : InitializeBegin(c)
    \/ \E c \in Consoles : InitializeFinish(c)
    \/ \E c \in Consoles : Start(c)
    \/ Stop("c2")
    \/ Goroutine
    \/ \E h \in {x \in Handles : ServerAt(x).owner = "c1"},
          req \in PairRequests : Request(h, req)

SpecPair == InitPair /\ [][NextPair]_vars

\* One session whose requests take time, so that Stop and the faults of the
\* goroutine fall between the dispatch of a handler and its return.
NextFlight ==
    \/ InitializeBegin("c1")
    \/ InitializeFinish("c1")
    \/ Start("c1")
    \/ Stop("c1")
    \/ Goroutine
    \/ \E h \in Handles, req \in PageRequests : Dispatch(h, req)
    \/ \E h \in Handles : Complete(h)

SpecFlight == Init /\ [][NextFlight]_vars

\* GetRPPort called on its own, as the command-line program does, against
\* every behaviour of the target.
CallGetRPPort ==
    /\ \E bmcIP \in {GoodHost, BadHost}, net \in NetOutcomes :
         rpCall' = [kind |-> "call", bmcIP |-> bmcIP, net |-> net,
                    result |-> GetRPPort(bmcIP, net)]
    /\ UNCHANGED <<config, serverPort, server, consoleHTML, mux, pc, probePort,
                   orphans, initialized, rpRequests, lastCall, lastResp>>

SpecRP == Init /\ [][CallGetRPPort]_vars

\* ================================================================ claims

Contains(seq, sub) ==
    \E i \in 0..(Len(seq) - Len(sub)) : SubSeq(seq, i + 1, i + Len(sub)) = sub

ServersOf(c) == {h \in Handles : ServerAt(h).owner = c}

\* C1: a second call to Start on one Console is rejected with an error and
\* creates no second server.
C1_SecondStartRejected ==
    [][\A c \in Consoles :
         (Start(c) /\ server[c] # NilServer)
             => (lastCall'.err # "nil" /\ server' = server /\ orphans' = orphans)]_vars

\* C2: Start returns a non-nil error whenever its listener could not be
\* bound (port taken, certificate files missing).
C2_BindFailureSurfaced ==
    \A h \in Handles : ServerAt(h).state = "failed" => ServerAt(h).ret # "nil"

\* C3: Stop on a session that was never started returns no error and leaves
\* the configuration, the page, the port and the server handle unchanged.
C3_StopBeforeStartNoOp ==
    [][\A c \in Consoles :
         (Stop(c) /\ server[c] = NilServer)
             => /\ lastCall'.op = "Stop" /\ lastCall'.err = "nil"
                /\ UNCHANGED <<config, consoleHTML, serverPort, server, mux,
                               orphans>>]_vars

C3_Witness ==
    /\ lastCall.c = "c1" /\ lastCall.op = "Stop" /\ lastCall.err = "nil"
    /\ server["c1"] = NilServer
    /\ initialized["c1"]

\* C4: once Stop has returned on a started session, no listener of the
\* session accepts a connection.
C4_NoAcceptAfterStop ==
    \A c \in Consoles :
        server[c].inShutdown
            => \A h \in ServersOf(c) : ServerAt(h).state # "serving"

\* C5: after Initialize has returned without error, the remote-presence
\* port and the listen port are both in [1, 65535].
C5_PortsValidAfterInitialize ==
    \A c \in Consoles :
        initialized[c]
            => ValidPort(config[c].RPPort) /\ ValidPort(serverPort[c])

\* C6: with a configured listen port, GetPort() after a successful
\* Initialize is that port, whatever Start, Stop, GetURL or request was
\* handled since.
C6_ExplicitPortKept ==
    \A c \in Consoles :
        (initialized[c] /\ config[c].ServerPort # 0)
            => /\ serverPort[c] = config[c].ServerPort
               /\ (lastCall.c = c /\ lastCall.op = "GetPort")
                      => lastCall.val = <<config[c].ServerPort>>

C6_Witness ==
    /\ initialized["c1"] /\ config["c1"].ServerPort = 8443
    /\ lastCall.c = "c1" /\ lastCall.op = "GetPort"
    /\ server["c1"].state = "closed"

\* C7 (as claimed): two sessions without a configured listen port that have
\* both completed Initialize and were not started have different ports.
C7_DistinctPorts ==
    \A c \in Consoles, d \in Consoles :
        (c # d /\ initialized[c] /\ initialized[d]
             /\ pc[c] = "idle" /\ pc[d] = "idle"
             /\ config[c].ServerPort = 0 /\ config[d].ServerPort = 0
             /\ server[c] = NilServer /\ server[d] = NilServer)
            => serverPort[c] # serverPort[d]

\* The ports held while the probe socket of c is open, by the listeners and
\* by the probe sockets of the other sessions.
HeldBesideProbe(c) ==
    {ServerAt(h).port : h \in {x \in Handles : HoldsPort(ServerAt(x))}}
        \cup {probePort[d] : d \in {x \in Consoles : x # c /\ pc[x] = "probing"}}

\* C7 (amended): the port a session is given by its probe is in [1, 65535]
\* and differs from every port held at that moment by a listener or by the
\* open probe socket of another session.
C7_ProbeAvoidsHeldPorts ==
    \A c \in Consoles :
        /\ pc[c] = "probing"
               => ValidPort(probePort[c]) /\ probePort[c] \notin HeldBesideProbe(c)
        /\ (initialized[c] /\ config[c].ServerPort = 0) => ValidPort(serverPort[c])

C7_Witness ==
    /\ pc["c1"] = "probing" /\ pc["c2"] = "probing"
    /\ probePort["c1"] # probePort["c2"]

\* C8: GetRPPort returns the port field of the answer when it is a positive
\* integer, and 3900 when the request cannot be built, the transport fails,
\* the body does not decode or the port is not positive.
C8_RPPortResolution ==
    rpCall.kind = "call" =>
        LET built == NewRequestOK(rpCall.bmcIP)
            answered == built /\ rpCall.net.kind = "resp"
            d == Decode(rpCall.net.body)
        IN /\ (answered /\ ~d.err /\ d.Port > 0) => rpCall.result.port = d.Port
           /\ (~answered \/ d.err \/ d.Port <= 0) => rpCall.result.port = 3900

C10_RootServesPage ==
    \A c \in Consoles :
        (lastResp.c = c /\ lastResp.path = RootPath /\ initialized[c])
            => /\ lastResp.status = 200
               /\ lastResp.ctype = <<"text/html">>
               /\ lastResp.upstream = <<>>
               /\ lastResp.body = consoleHTML[c]
               /\ Contains(lastResp.body, config[c].BMCIP)
               /\ Contains(lastResp.body, config[c].Username)

\* C10 (amended): a request for "/" to a started session whose Initialize
\* has succeeded gets, for any method and without any request to the target,
\* status 200, text/html and the rendered page, which holds the configured
\* host and username as the template engine escapes them for a script
\* string; a value is there verbatim when it is its own escaped form.
C10_RootServesEscapedPage ==
    \A c \in Consoles :
        (lastResp.c = c /\ lastResp.path = RootPath /\ initialized[c])
            => /\ lastResp.status = 200
               /\ lastResp.ctype = <<"text/html">>
               /\ lastResp.upstream = <<>>
               /\ lastResp.body = consoleHTML[c]
               /\ Contains(lastResp.body, JSStrEscape(config[c].BMCIP))
               /\ Contains(lastResp.body, JSStrEscape(config[c].Username))
               /\ \A v \in {config[c].BMCIP, config[c].Username} :
                      JSStrEscape(v) = v => Contains(lastResp.body, v)

C10_Witness ==
    /\ lastResp.c = "c1" /\ lastResp.path = RootPath /\ lastResp.method = "POST"
    /\ initialized["c1"]
    /\ config["c1"].Username = QuoteUser
    /\ lastResp.status = 200

\* The proxy allow-list: the paths a proxied pattern matches.
OnAllowList(path) == \E pat \in ProxyPatterns : PatternMatches(pat, path)

\* C11: a request whose path is not "/", not "/cert.pem" and not on the
\* proxy allow-list gets a not-found response, and no request is sent to
\* the target for it.
C11_OtherPathsNotFound ==
    (/\ lastResp.c # "none"
     /\ lastResp.path \notin {RootPath, CertPath}
     /\ ~OnAllowList(lastResp.path))
        => lastResp.status = 404 /\ lastResp.upstream = <<>>

\* The last exchange was a proxied one that the target answered.
Relayed ==
    /\ lastResp.c # "none"
    /\ OnAllowList(lastResp.path)
    /\ lastResp.up.kind = "resp"

\* The request the relay owes the target for the last exchange.
RelayedRequest ==
    [url |-> <<"https://">> \o config[lastResp.c].BMCIP \o lastResp.path,
     method |-> lastResp.method, headers |-> lastResp.reqHeaders]

ProxyFailed ==
    /\ lastResp.c # "none"
    /\ initialized[lastResp.c]
    /\ OnAllowList(lastResp.path)
    /\ lastResp.up.kind # "resp"

C14_WitnessNotBuilt ==
    /\ ProxyFailed
    /\ lastResp.body = <<"Failed to create request">>
    /\ lastResp.upstream = <<>>

\* A step of a serving goroutine.
GoroutineStep ==
    \E h \in Handles : ServeListen(h) \/ ServeTLS(h) \/ AcceptFault(h)

C16_URLNamesListenerPort ==
    \A c \in Consoles :
        (Alive /\ initialized[c])
            => /\ (lastCall.c = c /\ lastCall.op = "GetURL")
                      => lastCall.val
                             = <<"https://localhost:", ToString(serverPort[c])>>
               /\ (lastCall.c = c /\ lastCall.op = "GetPort")
                      => lastCall.val = <<serverPort[c]>>
               /\ \A h \in ServersOf(c) :
                      (HoldsPort(ServerAt(h)) /\ ServerAt(h).addr # 0)
                          => ServerAt(h).port = serverPort[c]

C16_Witness ==
    /\ initialized["c1"]
    /\ lastCall.c = "c1" /\ lastCall.op = "GetURL"
    /\ lastCall.val = <<"https://localhost:", "49152">>
    /\ server["c1"].state = "serving" /\ server["c1"].port = 49152

\* C17: a session serves only after it was initialized, and once it was
\* stopped no server of it is started again.
C17_LifecycleOrder ==
    /\ [](\A h \in Handles :
            ServerAt(h).state = "serving" => initialized[ServerAt(h).owner])
    /\ [][\A c \in Consoles :
            server[c].inShutdown
                => (server'[c].inShutdown \/ ~Running(server'[c]))]_vars

\* C18: LaunchAndOpen runs Initialize, Start and OpenInBrowser in that
\* order, returns the first error without running the later steps, and
\* returns nil only when all three returned nil.
C18_LaunchStopsAtFirstError ==
    /\ []((lastCall.op = "LaunchAndOpen" /\ lastCall.err # "panic")
            => /\ Len(lastCall.val) \in 1..3
               /\ \A i \in 1..(Len(lastCall.val) - 1) : lastCall.val[i] = "nil"
               /\ Len(lastCall.val) < 3 => lastCall.val[Len(lastCall.val)] # "nil"
               /\ lastCall.err = lastCall.val[Len(lastCall.val)]
               /\ lastCall.err = "nil"
                      => /\ lastCall.val = <<"nil", "nil", "nil">>
                         /\ initialized[lastCall.c]
                         /\ server[lastCall.c] # NilServer)
    /\ [][\A c \in Consoles :
            (/\ lastCall'.op = "LaunchAndOpen" /\ lastCall'.c = c
             /\ lastCall'.err # "panic"
             /\ LaunchAndOpen(c))
                => IF Len(lastCall'.val) = 1
                   THEN UNCHANGED <<server, orphans, mux, initialized>>
                   ELSE /\ initialized'[c]
                        /\ server'[c].state = "new"
                        /\ server'[c].addr = serverPort'[c]]_vars

C18_Witness ==
    /\ lastCall.c = "c1" /\ lastCall.op = "LaunchAndOpen"
    /\ lastCall.val = <<"nil", "nil", "failed to open browser">>
    /\ lastCall.err = "failed to open browser"
    /\ server["c1"].state = "new"

C18_WitnessInitializeFails ==
    /\ lastCall.c = "c1" /\ lastCall.op = "LaunchAndOpen"
    /\ lastCall.val = <<"failed to find available port">>
    /\ ~initialized["c1"]

\* C20: a listener started by Start accepts connections on loopback
\* addresses only.
C20_LoopbackOnly ==
    \A h \in Handles :
        HoldsPort(ServerAt(h)) => Interfaces(ServerAt(h).host) \subseteq {"loopback"}

\* The servers of console d whose goroutine runs with nothing pointing to
\* them.
OrphansOf(d) == SelectSeq(orphans, LAMBDA srv : srv.owner = d)

\* The consoles a step changes something of.
Touched ==
    {d \in Consoles :
        \/ config'[d] # config[d]
        \/ consoleHTML'[d] # consoleHTML[d]
        \/ serverPort'[d] # serverPort[d]
        \/ mux'[d] # mux[d]
        \/ server'[d] # server[d]
        \/ OrphansOf(d)' # OrphansOf(d)
        \/ initialized'[d] # initialized[d]}

\* C19: a step changes the configuration, page, port, handler set and
\* servers of one console at most, and a call on a console or a request to
\* it changes those of no other console.
C19_SessionsIndependent ==
    [][/\ Cardinality(Touched) <= 1
       /\ (lastCall' # lastCall /\ lastCall'.c # "none")
              => Touched \subseteq {lastCall'.c}
       /\ (lastResp' # lastResp /\ lastResp'.c # "none")
              => Touched = {}]_vars

C19_Witness ==
    /\ server["c1"].state = "serving"
    /\ server["c2"].inShutdown
    /\ lastResp.c = "c1" /\ lastResp.status = 200

\* The remote-presence port written into the page: the token after the
\* "rpPort: " stretch of the template, between its two padding blanks.
RPPortLabel == "', rpPort: "

PageRPPort(page) ==
    LET i == CHOOSE k \in 1..Len(page) : page[k] = RPPortLabel
    IN page[i + 2]

HasRPPort(page) == \E k \in 1..Len(page) : page[k] = RPPortLabel

\* C23: once the page is rendered (the listen port being picked, or
\* Initialize having returned nil) the remote-presence port embedded in it is
\* the configuration's remote-presence port, and that port is not the unset
\* value 0; no listen port is picked before the page exists.
C23_PageCarriesResolvedRPPort ==
    \A c \in Consoles :
        (initialized[c] \/ pc[c] = "probing") =>
            /\ HasRPPort(consoleHTML[c])
            /\ PageRPPort(consoleHTML[c]) = ToString(config[c].RPPort)
            /\ config[c].RPPort # 0

\* A session initialized after a port lookup, and one whose lookup fell back
\* to the default port.
C23_Witness ==
    /\ initialized["c1"]
    /\ rpRequests["c1"] > 0
    /\ config["c1"].RPPort = DefaultRPPort
    /\ PageRPPort(consoleHTML["c1"]) = ToString(DefaultRPPort)

\* A step that ends a call to Initialize on console c.
InitializeReturns(c) ==
    /\ lastCall' # lastCall
    /\ lastCall'.op = "Initialize"
    /\ lastCall'.c = c

\* C24 (as stated): every call to Initialize on a session whose handlers are
\* installed panics and leaves the handler set alone, and the handler set of
\* a session is either empty or the one set installed by the first call.
C24_SecondInitializePanics ==
    /\ [](\A c \in Consoles :
            mux[c] = IF initialized[c] THEN HandlerPatterns ELSE {})
    /\ [][\A c \in Consoles :
            (initialized[c] /\ InitializeReturns(c)) =>
                (lastCall'.err = "panic" /\ mux'[c] = mux[c])]_vars

\* C24 (amended): a call to Initialize on a session whose handlers are
\* installed never returns nil: it panics in setupHandlers, unless it returns
\* "failed to find available port" before reaching it; either way the
\* handler set stays the one installed by the first call.
C24_SecondInitializeNeverSucceeds ==
    /\ [](\A c \in Consoles :
            mux[c] = IF initialized[c] THEN HandlerPatterns ELSE {})
    /\ [][\A c \in Consoles :
            (initialized[c] /\ InitializeReturns(c)) =>
                /\ lastCall'.err \in {"panic", "failed to find available port"}
                /\ lastCall'.err = "panic" <=> pc[c] = "probing"
                                                \/ UsesConfiguredPort(config[c])
                /\ mux'[c] = mux[c]]_vars

\* A second Initialize that panicked.
C24_Witness ==
    /\ lastCall.op = "Initialize"
    /\ lastCall.err = "panic"
    /\ initialized[lastCall.c]
    /\ mux[lastCall.c] = HandlerPatterns

\* A second Initialize that returned an error because no port was free.
C24_WitnessNoPort ==
    /\ lastCall.op = "Initialize"
    /\ lastCall.err = "failed to find available port"
    /\ initialized[lastCall.c]

\* A step of Initialize on console c, called directly or by LaunchAndOpen.
InitializeStep(c) ==
    \/ pc'[c] # pc[c]
    \/ /\ lastCall' # lastCall
       /\ lastCall'.c = c
       /\ lastCall'.op \in {"Initialize", "LaunchAndOpen"}

\* C21: once Initialize has returned nil, no step other than a further
\* Initialize (Start, Stop, GetURL, GetPort, OpenInBrowser, the serving
\* goroutine, a request of any kind) changes the configuration, the listen
\* port or the rendered page of the session, and every answer to a request
\* for the root path is the rendered page.
C21_WriteOnce ==
    /\ [](\A c \in Consoles :
            (initialized[c] /\ lastResp.c = c /\ lastResp.path = RootPath) =>
                (lastResp.status = 200 /\ lastResp.body = consoleHTML[c]))
    /\ [][\A c \in Consoles :
            (initialized[c] /\ ~InitializeStep(c)) =>
                /\ config'[c] = config[c]
                /\ serverPort'[c] = serverPort[c]
                /\ consoleHTML'[c] = consoleHTML[c]]_vars
    /\ [][\A c \in Consoles :
            initialized[c] => consoleHTML'[c] = consoleHTML[c]]_vars

\* The page served after the browser was asked to open the session, the
\* session being started and its fields the ones Initialize wrote.
C21_Witness ==
    /\ initialized["c1"]
    /\ lastResp.c = "c1"
    /\ lastResp.path = RootPath
    /\ lastResp.body = consoleHTML["c1"]
    /\ consoleHTML["c1"] = generateHTML(config["c1"])
    /\ serverPort["c1"] = config["c1"].ServerPort

\* A session on which OpenInBrowser was called after Initialize.
C21_WitnessOpenInBrowser ==
    /\ initialized["c1"]
    /\ lastCall.op = "OpenInBrowser"
    /\ lastCall.val = FormatURL(serverPort["c1"])
    /\ server["c1"].state = "serving"

\* A step in which LaunchAndOpen on console c returns, OpenInBrowser having
\* failed after Initialize and Start returned nil.
LaunchBrowserFailed(c) ==
    /\ lastCall' # lastCall
    /\ lastCall'.op = "LaunchAndOpen"
    /\ lastCall'.c = c
    /\ Len(lastCall'.val) = 3
    /\ lastCall'.val[3] # "nil"

\* A step that shuts down the server console c points to, or takes it away
\* from the console without another one in its place.
ShutsDown(c) ==
    /\ server[c] # NilServer
    /\ ~server[c].inShutdown
    /\ server'[c] = NilServer \/ server'[c].inShutdown

StopStep(c) ==
    /\ lastCall'.op = "Stop"
    /\ lastCall'.c = c
    /\ Stop(c)

\* C26: on a session that has a server, every Stop returns nil; the first
\* one marks the server shut down and, if its listener was accepting, closes
\* it and releases the port; a Stop after that changes nothing; and a server
\* that was shut down never accepts.
C26_StopIdempotent ==
    /\ [](\A c \in Consoles :
            server[c].inShutdown => server[c].state # "serving")
    /\ [][\A c \in Consoles :
            (HasServer(c) /\ StopStep(c)) =>
                /\ lastCall'.err = "nil"
                /\ server'[c].inShutdown
                /\ server'[c].state # "serving"
                /\ server[c].state = "serving" =>
                       (server'[c].state = "closed" /\ server'[c].port = 0)
                /\ server[c].inShutdown => server'[c] = server[c]]_vars

\* A started session whose listener was accepting, after Stop.
C26_Witness ==
    /\ lastCall.op = "Stop"
    /\ lastCall.err = "nil"
    /\ server["c1"].state = "closed"
    /\ server["c1"].inShutdown
    /\ server["c1"].port = 0
    /\ orphans = <<>>

\* C22: a request that was dispatched gets its response, whatever happens to
\* the server between the dispatch and the return of the handler, and Stop
\* leaves the connections of requests in flight open.
C22_InFlightDelivered ==
    /\ [](lastResp.c # "none" => lastResp.delivered)
    /\ [][\A c \in Consoles :
            (lastCall'.op = "Stop" /\ lastCall'.c = c /\ Stop(c)) =>
                server'[c].conn = server[c].conn]_vars

\* A request in flight on an accepting server, the page being rendered.
C22_WitnessInFlight ==
    /\ initialized["c1"]
    /\ server["c1"].state = "serving"
    /\ server["c1"].conn = "active"
    /\ server["c1"].req.path = <<"/", "utility", ".js">>

====
